---- MODULE Spec2Model ----
(***************************************************************************)
(* Model of the `watch` supervisor (src/src/lib.rs).                       *)
(*                                                                         *)
(* `watch` spawns one task per factory, then loops forever: it awaits      *)
(* select_all on the tagged tasks, computes the from_to translation of the *)
(* surviving tags, respawns from the factory bound to the stopped index,   *)
(* remaps factory_index through from_to and re-tags the tasks by position. *)
(*                                                                         *)
(* Vectors are sequences; a Rust position p (0-based) is element p + 1.    *)
(* Tags and keys of the maps keep the 0-based values of the code.          *)
(***************************************************************************)
EXTENDS Integers, Sequences, FiniteSets, TLC

\* Largest number of factories handed to watch.
MaxN == 3
\* Largest number of completions the supervisor processes in a run.
MaxCompletions == 4

\* The values a completed task may return (T::Output); watch binds them to _.
Outputs == {"ok", "err"}

\* How select_all takes the completed future out of its vector: keeping the
\* order of the rest, or moving the last future into the hole.
RemovalModes == {"remove", "swap_remove"}

VARIABLES
    pc,             \* "created" (future not polled yet), "waiting" (suspended
                    \* in select_all), "panicked" (unwound), "returned"
    panic,          \* why the future unwound: "none", "empty", "factory",
                    \* "invalid index state"
    factories,      \* the Vec of factories, each named by its registry position
    indexed_tasks,  \* Vec<Indexed<T>>: the tasks handed to select_all
    factory_index,  \* HashMap<usize, F::Item>: slot index -> factory
    stopped_index,  \* position select_all reported in the last iteration (-1: none yet)
    from_to,        \* HashMap<usize, usize> of the last iteration
    calls,          \* per factory: how many times it has been invoked
    completed,      \* per factory: completions of its tasks taken by select_all
    select_policy,  \* which ready task select_all reports and how it returns
                    \* the rest: "any" (any ready task, either removal), or
                    \* "first_ready" (lowest position, order kept)
    waited          \* under "first_ready", per factory: the position at which
                    \* its task got ready (-1: not ready) and the iterations
                    \* that have passed it over since

vars == <<pc, panic, factories, indexed_tasks, factory_index, stopped_index,
          from_to, calls, completed, select_policy, waited>>

\* An empty HashMap / Vec.
Empty == <<>>

Range(f) == {f[k] : k \in DOMAIN f}

Max(S) == CHOOSE x \in S : \A y \in S : y <= x

Min(S) == CHOOSE x \in S : \A y \in S : x <= y

RECURSIVE Sum(_, _)
Sum(f, S) == IF S = {} THEN 0
             ELSE LET x == CHOOSE y \in S : TRUE IN f[x] + Sum(f, S \ {x})

\* Number of factories.
N == Len(factories)

FactoryIds == 0 .. (N - 1)

\* The registry built from an iterator of n factories.
Registry(n) == [i \in 1 .. n |-> i - 1]

\* struct Indexed<T> { index, inner }
Indexed(index, inner) == [index |-> index, inner |-> inner]

\* The future a factory yields on its k-th invocation.  `factory` and `inst`
\* identify the instance; `ready` says whether a poll would return Ready.
NewTask(f, k) == [factory |-> f, inst |-> k, ready |-> FALSE]

\* Indexed::poll forwards to the inner future.
PollReady(t) == t.inner.ready

\* Variant of Retag: the tags are counted from 1.
RetagFromOne(tasks) == [j \in 1 .. Len(tasks) |-> Indexed(j, tasks[j])]

\* .enumerate().map(|(index, inner)| Indexed { index, inner }).collect()
Retag(tasks) == [j \in 1 .. Len(tasks) |-> Indexed(j - 1, tasks[j])]

\* Vec::remove(p): the rest keeps its order.
RemoveAt(s, p) == [j \in 1 .. (Len(s) - 1) |-> IF j <= p THEN s[j] ELSE s[j + 1]]

\* Vec::swap_remove(p): the last element takes the place of the removed one.
SwapRemove(s, p) == [j \in 1 .. (Len(s) - 1) |-> IF j = p + 1 THEN s[Len(s)] ELSE s[j]]

\* The third component of select_all's result.
SelectAllRest(s, p, mode) == IF mode = "remove" THEN RemoveAt(s, p) ELSE SwapRemove(s, p)

\* Variant of SelectAllPanics: an empty vector is accepted and never completes.
SelectAllAcceptsEmpty(tasks) == FALSE

\* select_all refuses an empty vector: watch panics if `factories` is empty.
SelectAllPanics(tasks) == Len(tasks) = 0

\* Positions whose future would return Ready when select_all polls it.
ReadyPositions == {p \in 0 .. (Len(indexed_tasks) - 1) : PollReady(indexed_tasks[p + 1])}

\* The positions select_all may report: the first future found ready in
\* vector order under "first_ready", any ready one otherwise.
Reportable ==
    IF select_policy = "first_ready" /\ ReadyPositions # {}
    THEN {Min(ReadyPositions)}
    ELSE ReadyPositions

\* The ways select_all may return the rest.
Removals == IF select_policy = "first_ready" THEN {"remove"} ELSE RemovalModes

\* No ready task of the factory is waiting to be taken.
NotWaiting == [at |-> -1, passed |-> 0]

\* waited after the task at position j (1-based) got ready.
WaitedAfterReady(j) ==
    IF select_policy = "first_ready"
    THEN [waited EXCEPT ![indexed_tasks[j].inner.factory] =
                           [at |-> j - 1, passed |-> 0]]
    ELSE waited

\* waited after select_all reported position p: the task taken waits no
\* longer, every other ready task has been passed over once more.
WaitedAfterSelect(p) ==
    IF select_policy = "first_ready"
    THEN [f \in FactoryIds |->
            IF f = indexed_tasks[p + 1].inner.factory THEN NotWaiting
            ELSE IF waited[f].at >= 0
                 THEN [waited[f] EXCEPT !.passed = @ + 1]
                 ELSE waited[f]]
    ELSE waited

\* Variant of FromTo: the stopped index is inserted as its own target instead
\* of the tail.
FromToKeepsStopped(stopped, other_tasks) ==
    LET tags == {other_tasks[j].index : j \in DOMAIN other_tasks}
    IN [from \in tags \cup {stopped} |->
          IF from = stopped THEN stopped
          ELSE Max({j - 1 : j \in {i \in DOMAIN other_tasks :
                                      other_tasks[i].index = from}})]

\* Variant of FromTo: the targets are counted from 1.
FromToCountsFromOne(stopped, other_tasks) ==
    LET tags == {other_tasks[j].index : j \in DOMAIN other_tasks}
    IN [from \in tags \cup {stopped} |->
          IF from = stopped THEN Len(other_tasks)
          ELSE Max({j : j \in {i \in DOMAIN other_tasks :
                                  other_tasks[i].index = from}})]

\* Variant of FromTo: the insert of the stopped index is left out.
FromToWithoutStopped(stopped, other_tasks) ==
    LET tags == {other_tasks[j].index : j \in DOMAIN other_tasks}
    IN [from \in tags |->
          Max({j - 1 : j \in {i \in DOMAIN other_tasks :
                                 other_tasks[i].index = from}})]

\* from_to: other_tasks' tags enumerated and collected as (from, to), a later
\* pair replacing an earlier one with the same key; then
\* from_to.insert(stopped_index, other_tasks.len()).
FromTo(stopped, other_tasks) ==
    LET tags == {other_tasks[j].index : j \in DOMAIN other_tasks}
        collected == [from \in tags |->
                        Max({j - 1 : j \in {i \in DOMAIN other_tasks :
                                               other_tasks[i].index = from}})]
    IN [from \in tags \cup {stopped} |->
          IF from = stopped THEN Len(other_tasks) ELSE collected[from]]

\* Variant of StripTags: the first of the other tasks is skipped.
StripTagsSkipsFirst(other_tasks) ==
    [j \in 1 .. (Len(other_tasks) - 1) |-> other_tasks[j + 1].inner]

\* tasks: other_tasks with the tags taken off.
StripTags(other_tasks) == [j \in DOMAIN other_tasks |-> other_tasks[j].inner]

\* Variant of Push: the respawned task is put at the head.
PushFront(tasks, respawned_task) == <<respawned_task>> \o tasks

\* Variant of Push: the respawned task overwrites the last of the other tasks.
PushReplacesLast(tasks, respawned_task) ==
    IF Len(tasks) = 0 THEN <<respawned_task>>
    ELSE [tasks EXCEPT ![Len(tasks)] = respawned_task]

\* tasks.push(respawned_task)
Push(tasks, respawned_task) == Append(tasks, respawned_task)

\* Variant of Remaps: factory_index is left as it was.
RemapsKeepsKeys(fi, ft) == {fi}

\* factory_index rebuilt from its (from, factory) pairs as (from_to[from],
\* factory).  A HashMap is iterated in no particular order, so of two pairs
\* sent to the same key either one may be the one kept (when no two pairs
\* share a key the result is the one map).
Remaps(fi, ft) ==
    LET keys == {ft[from] : from \in DOMAIN fi}
        Sources(to) == {from \in DOMAIN fi : ft[from] = to}
    IN IF \A to \in keys : Cardinality(Sources(to)) = 1
       THEN {[to \in keys |-> fi[CHOOSE from \in Sources(to) : TRUE]]}
       ELSE {m \in [keys -> Range(fi)] :
               \A to \in keys : \E from \in Sources(to) : m[to] = fi[from]}

\* Variant of AfterIteration: the loop ends when no other task is left.
AfterIterationBreaks(other_tasks) ==
    IF Len(other_tasks) = 0 THEN "returned" ELSE "waiting"

\* `loop` has no break: after the body the future awaits select_all again.
AfterIteration(other_tasks) == "waiting"

\* Variant of Panicked: the failure is recorded and the tasks stay watched.
PanickedContinues(why, c) ==
    [pc |-> "waiting", panic |-> why, indexed_tasks |-> indexed_tasks,
     factory_index |-> factory_index, from_to |-> from_to, calls |-> c]

\* The state left by a panic: unwinding drops the locals of the future.
Panicked(why, c) ==
    [pc |-> "panicked", panic |-> why, indexed_tasks |-> Empty,
     factory_index |-> Empty, from_to |-> Empty, calls |-> c]

\* The body of the loop once select_all's result is taken apart: the set of
\* states it may leave.  `fok` says whether the factory invocation returns
\* (TRUE) or panics (FALSE).
LoopBody(stopped, other_tasks, fok) ==
    LET ft == FromTo(stopped, other_tasks)
        tasks == StripTags(other_tasks)
    IN IF stopped \notin DOMAIN factory_index
       THEN {Panicked("invalid index state", calls)}
       ELSE LET f == factory_index[stopped]
                c == [calls EXCEPT ![f] = @ + 1]
            IN IF ~fok
               THEN {Panicked("factory", c)}
               ELSE IF \E from \in DOMAIN factory_index : from \notin DOMAIN ft
                    THEN {Panicked("invalid index state", c)}
                    ELSE {[pc |-> AfterIteration(other_tasks),
                           panic |-> "none",
                           indexed_tasks |-> Retag(Push(tasks, NewTask(f, c[f]))),
                           factory_index |-> m,
                           from_to |-> ft,
                           calls |-> c] : m \in Remaps(factory_index, ft)}

\* Variant of Iteration: a task that returned "ok" is dropped, not respawned.
IterationRespawnsOnErr(output, stopped, other_tasks, fok) ==
    IF output = "err"
    THEN LoopBody(stopped, other_tasks, fok)
    ELSE {[pc |-> "waiting", panic |-> "none",
           indexed_tasks |-> Retag(StripTags(other_tasks)),
           factory_index |-> factory_index, from_to |-> from_to,
           calls |-> calls]}

\* let (_, stopped_index, other_tasks) = select_all(indexed_tasks).await;
\* followed by the body: the output is bound to _.
Iteration(output, stopped, other_tasks, fok) == LoopBody(stopped, other_tasks, fok)

\* Variant of InitialTasks: the factories are invoked from the last to the first.
InitialTasksReversed == Retag([i \in 1 .. N |-> NewTask(factories[N + 1 - i], 1)])

\* indexed_tasks at initialization: one task per factory, tagged by position.
InitialTasks == Retag([i \in 1 .. N |-> NewTask(factories[i], 1)])

\* Variant of InitialFactoryIndex: the factories are enumerated from the end.
InitialFactoryIndexReversed == [i \in 0 .. (N - 1) |-> factories[N - i]]

\* factory_index at initialization: factories.into_iter().enumerate().collect()
InitialFactoryIndex == [i \in 0 .. (N - 1) |-> factories[i + 1]]

TypeOK ==
    /\ pc \in {"created", "waiting", "panicked", "returned"}
    /\ panic \in {"none", "empty", "factory", "invalid index state"}
    /\ factories \in {Registry(n) : n \in 0 .. MaxN}
    /\ \A j \in DOMAIN indexed_tasks :
          /\ indexed_tasks[j].index \in Nat
          /\ indexed_tasks[j].inner.factory \in FactoryIds
          /\ indexed_tasks[j].inner.inst \in Nat
          /\ indexed_tasks[j].inner.ready \in BOOLEAN
    /\ \A k \in DOMAIN factory_index : factory_index[k] \in FactoryIds
    /\ stopped_index \in -1 .. (MaxN - 1)
    /\ calls \in [FactoryIds -> Nat]
    /\ completed \in [FactoryIds -> Nat]
    /\ select_policy \in {"any", "first_ready"}
    /\ \A f \in FactoryIds : waited[f].at \in -1 .. (MaxN - 1) /\ waited[f].passed \in Nat

\* The future returned by watch(factories), not polled yet.
InitState ==
    /\ pc = "created"
    /\ panic = "none"
    /\ factories \in {Registry(n) : n \in 0 .. MaxN}
    /\ indexed_tasks = Empty
    /\ factory_index = Empty
    /\ stopped_index = -1
    /\ from_to = Empty
    /\ calls = [f \in FactoryIds |-> 0]
    /\ completed = [f \in FactoryIds |-> 0]
    /\ waited = [f \in FactoryIds |-> NotWaiting]

\* select_all may report any ready task and return the rest either way.
Init == InitState /\ select_policy = "any"

\* select_all reports the lowest ready position and keeps the order of the rest.
InitFirstReady == InitState /\ select_policy = "first_ready"

\* First poll with at least one factory, every factory returning its task.
Start ==
    /\ pc = "created"
    /\ ~SelectAllPanics(InitialTasks)
    /\ calls' = [f \in FactoryIds |-> 1]
    /\ indexed_tasks' = InitialTasks
    /\ factory_index' = InitialFactoryIndex
    /\ pc' = "waiting"
    /\ UNCHANGED <<panic, factories, stopped_index, from_to, completed,
                   select_policy, waited>>

\* First poll with no factory: the tasks and the map are built empty and
\* select_all panics on the empty vector.
StartEmpty ==
    /\ pc = "created"
    /\ SelectAllPanics(InitialTasks)
    /\ pc' = "panicked"
    /\ panic' = "empty"
    /\ indexed_tasks' = Empty
    /\ factory_index' = Empty
    /\ calls' = [f \in FactoryIds |-> 1]
    /\ UNCHANGED <<factories, stopped_index, from_to, completed,
                   select_policy, waited>>

\* First poll in which the k-th factory (0-based) panics: the factories before
\* it have been invoked, their tasks are dropped by the unwinding.
StartFactoryPanics ==
    /\ pc = "created"
    /\ \E k \in FactoryIds :
          calls' = [f \in FactoryIds |-> IF f <= k THEN 1 ELSE 0]
    /\ pc' = "panicked"
    /\ panic' = "factory"
    /\ indexed_tasks' = Empty
    /\ factory_index' = Empty
    /\ UNCHANGED <<factories, stopped_index, from_to, completed,
                   select_policy, waited>>

\* A watched task gets able to complete (its next poll returns Ready).
TaskReady ==
    /\ pc = "waiting"
    /\ \E j \in DOMAIN indexed_tasks :
          /\ ~indexed_tasks[j].inner.ready
          /\ indexed_tasks' = [indexed_tasks EXCEPT ![j].inner.ready = TRUE]
          /\ waited' = WaitedAfterReady(j)
    /\ UNCHANGED <<pc, panic, factories, factory_index, stopped_index, from_to,
                   calls, completed, select_policy>>

\* select_all returns a ready task's output and position and the rest of the
\* tasks, and the body of the loop runs to the next await (or panics).
Step(fok) ==
    \E p \in Reportable, mode \in Removals, output \in Outputs :
       \E st \in Iteration(output, p, SelectAllRest(indexed_tasks, p, mode), fok) :
          /\ pc' = st.pc
          /\ panic' = st.panic
          /\ indexed_tasks' = st.indexed_tasks
          /\ factory_index' = st.factory_index
          /\ from_to' = st.from_to
          /\ calls' = st.calls
          /\ stopped_index' = p
          /\ completed' = [completed EXCEPT
                             ![indexed_tasks[p + 1].inner.factory] = @ + 1]
          /\ waited' = WaitedAfterSelect(p)

\* One iteration of the loop in which the factory returns the new task.
Iterate ==
    /\ pc = "waiting"
    /\ Sum(completed, FactoryIds) < MaxCompletions
    /\ Step(TRUE)
    /\ UNCHANGED <<factories, select_policy>>

\* One iteration of the loop in which the factory panics.
IterateFactoryPanics ==
    /\ pc = "waiting"
    /\ Sum(completed, FactoryIds) < MaxCompletions
    /\ Step(FALSE)
    /\ UNCHANGED <<factories, select_policy>>

Next ==
    \/ Start
    \/ StartEmpty
    \/ StartFactoryPanics
    \/ TaskReady
    \/ Iterate
    \/ IterateFactoryPanics

Spec == Init /\ [][Next]_vars

\* The supervisor over a select_all that reports the first ready task and keeps
\* the order of the others.
SpecFirstReady == InitFirstReady /\ [][Next]_vars

(***************************************************************************)
(* Properties                                                              *)
(***************************************************************************)

\* Positions of indexed_tasks holding a task produced by factory f.
TasksOf(f) == {j \in DOMAIN indexed_tasks : indexed_tasks[j].inner.factory = f}

\* Completions processed so far.
Processed == Sum(completed, FactoryIds)

\* The step processed a completion.
CompletionStep == completed' # completed

NoTwoInFlight == \A f \in FactoryIds : Cardinality(TasksOf(f)) <= 1

InvokedAgainOnlyAfterCompletion ==
    \A f \in FactoryIds :
       (calls'[f] # calls[f] /\ calls[f] >= 1) =>
          /\ completed'[f] = completed[f] + 1
          /\ \E j \in TasksOf(f) : indexed_tasks[j].inner.ready
          /\ \A j \in DOMAIN indexed_tasks' :
                indexed_tasks'[j].inner.factory = f =>
                   indexed_tasks'[j].inner.inst = calls'[f]

\* C1: in every reachable state the Active Task Set holds at most one task of
\* each factory, and a step invokes a factory again only when it takes the
\* completion of that factory's task, which was ready and is no longer in the
\* set afterwards (only the new instance is).
C1_AtMostOneInstance == []NoTwoInFlight /\ [][InvokedAgainOnlyAfterCompletion]_vars

\* C1 witness: a factory has been respawned while another factory's task is
\* in flight.
C1_Witness ==
    /\ pc = "waiting"
    /\ N >= 2
    /\ \E f \in FactoryIds : calls[f] >= 2 /\ Cardinality(TasksOf(f)) = 1

\* C2: whenever the supervisor is suspended in select_all (the start and the
\* end of every iteration), indexed_tasks holds exactly N tasks and the keys
\* of factory_index are exactly 0 .. N-1.
C2_SizeAndKeys ==
    pc = "waiting" =>
       /\ Len(indexed_tasks) = N
       /\ DOMAIN factory_index = 0 .. (N - 1)

\* C2 witness: three factories, after several iterations.
C2_Witness == pc = "waiting" /\ N = 3 /\ Processed >= 3

\* C3: a step that processes a completion processes exactly one, and invokes
\* exactly one factory, the one that produced the completed task; no other
\* factory's invocation count changes.
C3_OneRespawnOfSameFactory ==
    [][CompletionStep =>
         \E f \in FactoryIds :
            /\ completed' = [completed EXCEPT ![f] = @ + 1]
            /\ calls' = [calls EXCEPT ![f] = @ + 1]]_vars

\* C3 witness: with three factories, the task of factory 1 alone has completed
\* and factory 1 alone has been invoked a second time.
C3_Witness ==
    /\ pc = "waiting"
    /\ N = 3
    /\ completed = (0 :> 0 @@ 1 :> 1 @@ 2 :> 0)
    /\ calls = (0 :> 1 @@ 1 :> 2 @@ 2 :> 1)

\* C4: with at least one factory and no factory failure, watch is never in a
\* returned (or otherwise ended) state: it is created or waiting, and waiting
\* after every processed completion.
C4_NeverReturns ==
    (N >= 1 /\ panic # "factory") =>
       /\ pc \in {"created", "waiting"}
       /\ (Processed >= 1 => pc = "waiting")

\* C4 witness: a single factory whose task has completed several times.
C4_Witness == N = 1 /\ Processed >= 3 /\ pc = "waiting" /\ panic = "none"

\* C5: with zero factories the operation is never pending in select_all and
\* never returned; once polled it has panicked on the empty collection; no
\* factory has been invoked and no task exists.
C5_EmptyPanics ==
    N = 0 =>
       /\ pc \in {"created", "panicked"}
       /\ (pc = "panicked" => panic = "empty")
       /\ indexed_tasks = Empty
       /\ \A f \in DOMAIN calls : calls[f] = 0

\* C5 witness: watch called with no factory has panicked.
C5_Witness == N = 0 /\ pc = "panicked" /\ panic = "empty"

\* C6: once a factory invocation has panicked the operation has ended with
\* that failure, and from then on no completion is processed, no factory is
\* invoked and the failure stays.
C6_FactoryFailureEndsWatch ==
    /\ [](panic = "factory" => pc = "panicked")
    /\ [][panic = "factory" => UNCHANGED <<pc, panic, calls, completed>>]_vars

\* C6 witness: with several factories, a respawn panicked after an earlier
\* completion had been respawned.
C6_Witness ==
    /\ panic = "factory"
    /\ N >= 2
    /\ stopped_index >= 0
    /\ Processed >= 2

\* C7: at every iteration boundary each factory has been invoked exactly
\* 1 + (processed completions of its tasks) times, N + k invocations in all
\* after k processed completions.
C7_InvocationCount ==
    pc = "waiting" =>
       /\ \A f \in FactoryIds : calls[f] = 1 + completed[f]
       /\ Sum(calls, FactoryIds) = N + Processed

\* C7 witness: three factories whose tasks completed in the order task 1,
\* task 0, task 2 (survivors kept in order), each factory invoked twice.
C7_Witness ==
    /\ pc = "waiting"
    /\ N = 3
    /\ \A f \in FactoryIds : completed[f] = 1 /\ calls[f] = 2
    /\ factory_index = (0 :> 1 @@ 1 :> 0 @@ 2 :> 2)

\* C8: whatever select_all may return in a waiting state (position, rest,
\* factory returning or panicking), the states the iteration can leave are the
\* same for every output value of the completed task, and the producer of the
\* completed task is invoked in every case.
C8_OutputsIgnored ==
    pc = "waiting" =>
       \A p \in ReadyPositions, mode \in RemovalModes, fok \in BOOLEAN :
          LET rest == SelectAllRest(indexed_tasks, p, mode)
              producer == indexed_tasks[p + 1].inner.factory
          IN /\ \A o1, o2 \in Outputs :
                   Iteration(o1, p, rest, fok) = Iteration(o2, p, rest, fok)
             /\ \A o \in Outputs : \A st \in Iteration(o, p, rest, fok) :
                   st.calls[producer] = calls[producer] + 1

\* C8 witness: after a respawn, two tasks are ready to be taken with either
\* output.
C8_Witness ==
    /\ pc = "waiting"
    /\ Processed >= 1
    /\ Cardinality(ReadyPositions) >= 2

\* C9: at the start of every iteration, for every slot i in 0 .. N-1 the
\* factory bound to key i of factory_index is the producer of the task at
\* position i of indexed_tasks.
C9_SlotOwnership ==
    pc = "waiting" =>
       \A i \in 0 .. (N - 1) :
          /\ i \in DOMAIN factory_index
          /\ i + 1 \in DOMAIN indexed_tasks
          /\ factory_index[i] = indexed_tasks[i + 1].inner.factory

\* C9 witness: the last iteration got the survivors back in another relative
\* order (swap with last), after an earlier iteration.
C9_Witness ==
    /\ pc = "waiting"
    /\ Processed >= 2
    /\ \E a, b \in DOMAIN from_to \ {stopped_index} :
          a < b /\ from_to[a] > from_to[b]

\* The task instances are the same.
SameInstance(t, u) == t.factory = u.factory /\ t.inst = u.inst

\* select_all returned the survivors in their original relative order.
OrderKept ==
    SubSeq(StripTags(indexed_tasks'), 1, N - 1)
       = StripTags(RemoveAt(indexed_tasks, stopped_index'))

\* C10 as stated: after an iteration, the survivors' old slot indices are
\* translated into 0 .. N-2 and a smaller old index gets a smaller new index.
C10_OrderPreserved ==
    (pc = "waiting" /\ stopped_index >= 0) =>
       \A a, b \in DOMAIN from_to \ {stopped_index} :
          /\ from_to[a] \in 0 .. (N - 2)
          /\ (a < b => from_to[a] < from_to[b])

\* C10 amended: when the task at slot s completes, every survivor's old slot
\* index is translated to a new index in 0 .. N-2, the position at which the
\* survivor itself sits afterwards, no two survivors getting the same; the
\* relative order is preserved when select_all returned the survivors in
\* their original relative order.
C10_CompactionFollowsSelectAll ==
    [][(CompletionStep /\ pc' = "waiting") =>
         LET survivors == (0 .. (N - 1)) \ {stopped_index'}
         IN /\ \A a \in survivors :
                  /\ a \in DOMAIN from_to'
                  /\ from_to'[a] \in 0 .. (N - 2)
                  /\ SameInstance(indexed_tasks'[from_to'[a] + 1].inner,
                                  indexed_tasks[a + 1].inner)
            /\ \A a, b \in survivors : a # b => from_to'[a] # from_to'[b]
            /\ OrderKept =>
                  \A a, b \in survivors : a < b => from_to'[a] < from_to'[b]]_vars

\* C10 witness: slot 0 of three completed and the two survivors, returned in
\* order, moved down to slots 0 and 1.
C10_Witness ==
    /\ pc = "waiting"
    /\ N = 3
    /\ stopped_index = 0
    /\ from_to = (0 :> 2 @@ 1 :> 0 @@ 2 :> 1)

\* C11: in every iteration that goes back to waiting, whatever the stopped
\* slot s, the task at index N-1 of the new indexed_tasks is the instance just
\* produced by the producer of the completed task, tagged N-1, and key N-1 of
\* the new factory_index is bound to the factory that owned slot s.
C11_TailPlacement ==
    [][(CompletionStep /\ pc' = "waiting") =>
         LET s == stopped_index'
             producer == indexed_tasks[s + 1].inner.factory
             tail == indexed_tasks'[N]
         IN /\ Len(indexed_tasks') = N
            /\ tail.index = N - 1
            /\ tail.inner.factory = producer
            /\ tail.inner.inst = calls'[producer]
            /\ tail.inner.inst = calls[producer] + 1
            /\ from_to'[s] = N - 1
            /\ (N - 1) \in DOMAIN factory_index'
            /\ factory_index'[N - 1] = factory_index[s]]_vars

\* C11 witness: the last slot of three completed (s = N-1) and was respawned.
C11_Witness ==
    /\ pc = "waiting"
    /\ N = 3
    /\ stopped_index = 2
    /\ indexed_tasks[3].inner.inst >= 2

\* C11 witness for a single factory (N = 1): its only task was respawned.
C11_WitnessSingle ==
    /\ pc = "waiting"
    /\ N = 1
    /\ stopped_index = 0
    /\ indexed_tasks[1].inner.inst >= 2

\* C12: the supervisor never unwinds with "invalid index state", and in every
\* waiting state with N >= 1, whichever position select_all may report and
\* however it returns the rest, the reported position is a key of
\* factory_index and every key of factory_index is a key of from_to.
C12_NoInvalidIndexState ==
    /\ panic # "invalid index state"
    /\ (pc = "waiting" /\ N >= 1) =>
          \A p \in 0 .. (Len(indexed_tasks) - 1), mode \in RemovalModes :
             /\ p \in DOMAIN factory_index
             /\ DOMAIN factory_index \subseteq
                   DOMAIN FromTo(p, SelectAllRest(indexed_tasks, p, mode))

\* C12 witness: both lookups have succeeded in several iterations of three
\* factories and the supervisor waits again.
C12_Witness ==
    /\ pc = "waiting"
    /\ N = 3
    /\ Processed >= 3
    /\ DOMAIN from_to = 0 .. 2
    /\ ReadyPositions # {}

\* C13: an iteration that goes back to waiting takes exactly one completion;
\* every other task of the old indexed_tasks is in the new indexed_tasks
\* exactly once, as the same instance in the same condition (ready or not),
\* the set keeps its size, and the completed instance is no longer in it.
C13_OthersKept ==
    [][(CompletionStep /\ pc' = "waiting") =>
         LET s == stopped_index'
         IN /\ Processed' = Processed + 1
            /\ Len(indexed_tasks') = Len(indexed_tasks)
            /\ \A j \in DOMAIN indexed_tasks \ {s + 1} :
                  Cardinality({k \in DOMAIN indexed_tasks' :
                                 indexed_tasks'[k].inner = indexed_tasks[j].inner}) = 1
            /\ \A k \in DOMAIN indexed_tasks' :
                  ~SameInstance(indexed_tasks'[k].inner, indexed_tasks[s + 1].inner)]_vars

\* C13 witness: one of three tasks has been taken and respawned while the two
\* others, both ready, are still the first instances and are offered again.
C13_Witness ==
    /\ pc = "waiting"
    /\ N = 3
    /\ Processed = 1
    /\ ~indexed_tasks[3].inner.ready
    /\ indexed_tasks[3].inner.inst = 2
    /\ \A j \in 1 .. 2 : indexed_tasks[j].inner.ready /\ indexed_tasks[j].inner.inst = 1

\* C14: nothing is invoked before the first poll; at the first wait (no
\* completion processed yet) every factory has been invoked exactly once,
\* task i is the first product of factory i and carries tag i, and
\* factory_index binds key i to factory i for every i in 0 .. N-1; the
\* factories are invoked in registry order (when one panics during the
\* initial spawn, exactly the factories up to it have been invoked).
C14_Initialization ==
    /\ pc = "created" =>
          /\ indexed_tasks = Empty
          /\ \A f \in FactoryIds : calls[f] = 0
    /\ (pc = "waiting" /\ Processed = 0) =>
          /\ Len(indexed_tasks) = N
          /\ DOMAIN factory_index = 0 .. (N - 1)
          /\ \A i \in 0 .. (N - 1) :
                /\ calls[factories[i + 1]] = 1
                /\ indexed_tasks[i + 1].index = i
                /\ indexed_tasks[i + 1].inner.factory = factories[i + 1]
                /\ indexed_tasks[i + 1].inner.inst = 1
                /\ factory_index[i] = factories[i + 1]
    /\ (pc = "panicked" /\ Processed = 0) =>
          \A i, j \in 1 .. N :
             (i < j /\ calls[factories[j]] >= 1) => calls[factories[i]] = 1

\* C14 witness: three factories, first wait.
C14_Witness ==
    /\ pc = "waiting"
    /\ N = 3
    /\ Processed = 0
    /\ stopped_index = -1

\* The task at position j (1-based) of indexed_tasks is still in flight after
\* the step and its factory has not been invoked by the step.
StaysUninvoked(j) ==
    /\ \E k \in DOMAIN indexed_tasks' :
          SameInstance(indexed_tasks'[k].inner, indexed_tasks[j].inner)
    /\ calls'[indexed_tasks[j].inner.factory] = calls[indexed_tasks[j].inner.factory]

\* Positions (1-based) of the tasks that cannot complete yet.
NotReady == {j \in DOMAIN indexed_tasks : ~indexed_tasks[j].inner.ready}

\* C15 as stated: a task that has not completed is still in the Active Task
\* Set after every step, and its factory is not invoked by the step.
C15_StuckTaskStaysAlways ==
    [][\A j \in NotReady : StaysUninvoked(j)]_vars

\* C15 amended: a task that has not completed is still in the Active Task
\* Set, its factory not invoked, after every step that leaves the supervisor
\* waiting (a panicking factory ends supervision and drops every task); and
\* while such a task is watched, a ready task of another factory can still be
\* taken and respawned.
C15_StuckTaskStaysWhileWatching ==
    /\ [][pc' = "waiting" => \A j \in NotReady : StaysUninvoked(j)]_vars
    /\ []((pc = "waiting" /\ NotReady # {} /\ ReadyPositions # {}
             /\ Processed < MaxCompletions) => ENABLED Iterate)

\* C15 witness: with two or more factories, one task has never completed (it
\* is still the first instance, not ready) while another factory has been
\* respawned several times.
C15_Witness ==
    /\ pc = "waiting"
    /\ N >= 2
    /\ \E j \in NotReady : indexed_tasks[j].inner.inst = 1
    /\ \E f \in FactoryIds : calls[f] >= 3

\* C17: every time indexed_tasks is handed to select_all, the tag of each
\* Indexed task is its position in the vector and a key of factory_index; so
\* the position select_all reports for a ready task is that task's tag.
C17_TagIsPosition ==
    pc = "waiting" =>
       /\ \A j \in DOMAIN indexed_tasks :
             /\ indexed_tasks[j].index = j - 1
             /\ indexed_tasks[j].index \in DOMAIN factory_index
       /\ \A p \in ReadyPositions : indexed_tasks[p + 1].index = p

\* C17 witness: three tasks re-tagged by several iterations, one of them ready
\* to be reported.
C17_Witness ==
    /\ pc = "waiting"
    /\ N = 3
    /\ Processed >= 2
    /\ ReadyPositions # {}
    /\ stopped_index = 0

\* C16: when select_all reports the lowest ready position and keeps the order
\* of the others, a task that got ready at position p has been passed over at
\* most p times, each passing having moved it one position down (the
\* respawned task goes to the tail); so it is the one taken in the (p+1)-th
\* iteration at the latest.
C16_NoStarvation ==
    select_policy = "first_ready" =>
       \A f \in FactoryIds :
          waited[f].at >= 0 =>
             /\ waited[f].passed <= waited[f].at
             /\ pc = "waiting" =>
                   \E j \in TasksOf(f) :
                      /\ indexed_tasks[j].inner.ready
                      /\ j - 1 = waited[f].at - waited[f].passed

\* C16 witness: a task that got ready at position 2 has been passed over
\* twice by tasks ready before it, and is now first in line.
C16_Witness ==
    /\ select_policy = "first_ready"
    /\ pc = "waiting"
    /\ \E f \in FactoryIds :
          /\ waited[f] = [at |-> 2, passed |-> 2]
          /\ indexed_tasks[1].inner.factory = f
          /\ indexed_tasks[1].inner.ready

====
